---- MODULE Spec2Model ----
(***************************************************************************)
(* Model of the CRDT specification core: the operation-based and the       *)
(* state-based Payload containers (src/src/ops_based.rs,                   *)
(* src/src/state_based.rs), the Semilattice implementation for i32 and the *)
(* closures used by the unit tests.                                        *)
(***************************************************************************)
EXTENDS Integers, Sequences, FiniteSets, TLC

VARIABLES
  overflow_checks, \* build profile: TRUE = arithmetic overflow panics, FALSE = wraps
  panicked,        \* a call has panicked (arithmetic overflow under overflow checks)
  impl_T,          \* which implementation of the domain type T the containers hold
  initial,         \* ops_based::Payload.initial
  t_ops,           \* a bare T driven by the same calls through OpsBased<T>
  sb_initial,      \* state_based::Payload.initial
  t_sb,            \* a bare T driven by the same calls through StateBased<T>
  last,            \* record of the last call and what it did
  steps,           \* number of calls made so far
  rval,            \* operation-based replicas: value of each replica
  applied,         \* operation-based replicas: operations applied downstream, in order
  opargs,          \* the argument carried by each operation issued so far
  rpanic,          \* operation-based replicas that panicked
  rinit,           \* operation-based replicas: the value every replica started from
  rlast,           \* operation-based replicas: record of the last update or query call
  sval,            \* state-based replicas: value of each replica
  seen,            \* state-based replicas: the incoming values merged, in order
  net,             \* state-based replicas: values sent, as <<destination, value>>
  lx, ly, lz,      \* operands of the Semilattice functions
  lres             \* result of the last Semilattice call

vars == <<overflow_checks, panicked, impl_T, initial, t_ops, sb_initial, t_sb,
          last, steps, rval, applied, opargs, rpanic, rinit, rlast, sval, seen, net,
          lx, ly, lz, lres>>

containerVars == <<impl_T, initial, t_ops, sb_initial, t_sb, last, steps>>
opsReplicaVars == <<rval, applied, opargs, rpanic, rinit, rlast>>
sbReplicaVars == <<sval, seen, net>>
latticeVars == <<lx, ly, lz, lres>>

----------------------------------------------------------------------------
(* i32 arithmetic, two's complement, at a width of IntBits bits *)

IntBits == 6

MinI32 == -(2^(IntBits - 1))
MaxI32 == (2^(IntBits - 1)) - 1

Wrap32(n) == ((n - MinI32) % (2^IntBits)) + MinI32

\* The outcome of an i32 arithmetic result n: with overflow checks the
\* operation panics when n is out of range, without them it wraps.
Checked(n) ==
  [panic |-> overflow_checks /\ (n < MinI32 \/ n > MaxI32), v |-> Wrap32(n)]

----------------------------------------------------------------------------
(* Option<T> and Result<Option<T>, Error> *)

None == <<>>
Some(v) == <<v>>

Ok(opt) == [tag |-> "Ok", val |-> opt, err |-> ""]
Err(e) == [tag |-> "Err", val |-> None, err |-> e]

----------------------------------------------------------------------------
(* Bounds *)

MaxSteps == 3
MaxOps == 3
MaxMerges == 3

Replicas == {"A", "B"}
OpIds == 1 .. MaxOps
LatticeVals == {MinI32, -1, 0, 2, 4, MaxI32}
MergeVals == {-1, 1, 2, 4}
Peers == {"A", "B", "C"}

ImplTs == {"i32", "fallible"}
InitVals == {0, 1, MaxI32}
ArgVals == {-1, 1, 2}
QueryFns == {"succ", "none"}
AtSourceFns == {"sum", "guarded", "bump"}
DownstreamFns == {"add", "assign"}
UpdateFns == {"inc", "dec", "noop"}

----------------------------------------------------------------------------
(* Caller-supplied functions *)

\* Query = fn(&i32) -> Option<i32>.  The argument is a shared reference, so
\* the value the query leaves is the value it was given.
QueryApply(q, x) ==
  LET s == Checked(x + 1) IN
  CASE q = "succ" -> [x |-> x, res |-> IF s.panic THEN None ELSE Some(s.v), panic |-> s.panic]
    [] q = "none" -> [x |-> x, res |-> None, panic |-> FALSE]

\* An at_source that returns its argument.
AtSourceApply_args(f, x, y) == [x |-> x, res |-> Some(y), panic |-> FALSE]

\* AtSource = fn(&mut i32, &Args) -> Option<i32>.
\*   "sum"     |x, y| Some(*x + *y)
\*   "guarded" |x, y| if *y > 0 { Some(*x + *y) } else { None }
\*   "bump"    |x, y| { *x += *y; Some(*x) }
AtSourceApply(f, x, y) ==
  LET s == Checked(x + y) IN
  CASE f = "sum" -> [x |-> x, res |-> IF s.panic THEN None ELSE Some(s.v), panic |-> s.panic]
    [] f = "guarded" ->
         IF y > 0
         THEN [x |-> x, res |-> IF s.panic THEN None ELSE Some(s.v), panic |-> s.panic]
         ELSE [x |-> x, res |-> None, panic |-> FALSE]
    [] f = "bump" ->
         [x |-> IF s.panic THEN x ELSE s.v,
          res |-> IF s.panic THEN None ELSE Some(s.v), panic |-> s.panic]

\* A downstream whose "add" overwrites the value with the argument.
DownstreamApply_assign(f, x, y) == [x |-> y, panic |-> FALSE]

\* A downstream whose "add" subtracts the argument.
DownstreamApply_sub(f, x, y) ==
  LET s == Checked(x - y) IN
  [x |-> IF s.panic THEN x ELSE s.v, panic |-> s.panic]

\* Downstream = fn(&mut i32, &Args).
\*   "add"     |x, y| *x += *y
\*   "assign"  |x, y| *x = *y
DownstreamApply(f, x, y) ==
  LET s == Checked(x + y) IN
  CASE f = "add" -> [x |-> IF s.panic THEN x ELSE s.v, panic |-> s.panic]
    [] f = "assign" -> [x |-> y, panic |-> FALSE]

\* Update = fn(&mut i32) -> Option<i32>.
\*   "inc"   |value| { *value += 1; Some(*value) }
\*   "dec"   |value| { *value -= 1; Some(*value) }
\*   "noop"  |_| None
UpdateApply(u, x) ==
  LET s == Checked(IF u = "inc" THEN x + 1 ELSE x - 1) IN
  CASE u \in {"inc", "dec"} ->
         [x |-> IF s.panic THEN x ELSE s.v,
          res |-> IF s.panic THEN None ELSE Some(s.v), panic |-> s.panic]
    [] u = "noop" -> [x |-> x, res |-> None, panic |-> FALSE]

----------------------------------------------------------------------------
(* impl Semilattice for i32 *)

\* A compare that is strict.
compare_strict(x, y) == x < y

\* compare: self <= other
compare(x, y) == x <= y

\* A merge that returns the incoming value.
merge_other(x, y) == y

\* A merge that adds its operands.
merge_sum(x, y) == Wrap32(x + y)

\* A merge that returns the smaller operand.
merge_min(x, y) == IF x <= y THEN x ELSE y

\* A merge that keeps its own value.
merge_self(x, y) == x

\* merge: max(*self, *other)
merge(x, y) == IF x >= y THEN x ELSE y

----------------------------------------------------------------------------
(* The domain type T: its own query and update *)

\* <T as OpsBased<T>>::query.  The i32 implementation is Ok(query(self)); the
\* fallible implementation signals a typed error on an invalid (negative)
\* value, as the trait's Result<_, Self::Error> allows.
OpsT_query(impl, x, q) ==
  LET r == QueryApply(q, x) IN
  IF impl = "fallible" /\ x < 0
  THEN [x |-> x, ret |-> Err("Invalid"), panic |-> FALSE]
  ELSE [x |-> r.x, ret |-> Ok(r.res), panic |-> r.panic]

\* <T as OpsBased<T>>::update.  The i32 implementation runs at_source, then
\* downstream, and returns Ok(res); the fallible implementation signals a
\* typed error on a malformed (negative) argument.
OpsT_update(impl, x, args, at, dn) ==
  LET a == AtSourceApply(at, x, args)
      d == DownstreamApply(dn, a.x, args)
  IN IF impl = "fallible" /\ args < 0
     THEN [x |-> x, ret |-> Err("Malformed"), panic |-> FALSE]
     ELSE IF a.panic
          THEN [x |-> a.x, ret |-> Ok(None), panic |-> TRUE]
          ELSE [x |-> d.x, ret |-> Ok(a.res), panic |-> d.panic]

\* <T as StateBased<T>>::query.
SbT_query(impl, x, q) ==
  LET r == QueryApply(q, x) IN
  IF impl = "fallible" /\ x < 0
  THEN [x |-> x, ret |-> Err("Invalid"), panic |-> FALSE]
  ELSE [x |-> r.x, ret |-> Ok(r.res), panic |-> r.panic]

\* <T as StateBased<T>>::update.
SbT_update(impl, x, u) ==
  LET r == UpdateApply(u, x) IN
  IF impl = "fallible" /\ x < 0
  THEN [x |-> x, ret |-> Err("Invalid"), panic |-> FALSE]
  ELSE [x |-> r.x, ret |-> Ok(r.res), panic |-> r.panic]

----------------------------------------------------------------------------
(* The Payload containers *)

\* ops_based::Payload::query: self.initial.query(query)
OpsPayload_query(impl, x, q) == OpsT_query(impl, x, q)

\* An update that runs downstream before at_source.
OpsPayload_update_swapped(x, args, at, dn) ==
  LET d == DownstreamApply(dn, x, args)
      a == AtSourceApply(at, d.x, args)
  IN IF d.panic
     THEN [x |-> d.x, mid |-> d.x, atres |-> None, dn_applied |-> FALSE,
           dn_in |-> args, ret |-> Ok(None), panic |-> TRUE]
     ELSE [x |-> a.x, mid |-> d.x, atres |-> a.res, dn_applied |-> TRUE,
           dn_in |-> args, ret |-> Ok(a.res), panic |-> a.panic]

\* ops_based::Payload::update:
\*   let res = at_source(&mut self.initial, args);
\*   downstream(&mut self.initial, args);
\*   Ok(res)
\* mid is the value between the two phases, dn_in the input handed to
\* downstream.
OpsPayload_update(x, args, at, dn) ==
  LET a == AtSourceApply(at, x, args)
      d == DownstreamApply(dn, a.x, args)
  IN IF a.panic
     THEN [x |-> a.x, mid |-> a.x, atres |-> a.res, dn_applied |-> FALSE,
           dn_in |-> args, ret |-> Ok(None), panic |-> TRUE]
     ELSE [x |-> d.x, mid |-> a.x, atres |-> a.res, dn_applied |-> ~d.panic,
           dn_in |-> args, ret |-> Ok(a.res), panic |-> d.panic]

\* A query that stores its result in the container.
SbPayload_query_store(x, q) ==
  LET r == QueryApply(q, x) IN
  [x |-> IF r.res = None THEN r.x ELSE r.res[1], ret |-> Ok(r.res), panic |-> r.panic]

\* state_based::Payload::query: Ok(query(&self.initial))
SbPayload_query(x, q) ==
  LET r == QueryApply(q, x) IN
  [x |-> r.x, ret |-> Ok(r.res), panic |-> r.panic]

\* An update that runs the update function on a copy of the value.
SbPayload_update_copy(x, u) ==
  LET r == UpdateApply(u, x) IN
  [x |-> x, ret |-> Ok(r.res), panic |-> r.panic]

\* state_based::Payload::update: Ok(update(&mut self.initial))
SbPayload_update(x, u) ==
  LET r == UpdateApply(u, x) IN
  [x |-> r.x, ret |-> Ok(r.res), panic |-> r.panic]

----------------------------------------------------------------------------
(* Calls on the two containers, each mirrored on a bare T *)

NoCall ==
  [op |-> "none", fn |-> "", at |-> "", dn |-> "", args |-> 0,
   before |-> 0, mid |-> 0, after |-> 0, atres |-> None, dn_applied |-> FALSE,
   dn_in |-> 0,
   res |-> Ok(None), tres |-> Ok(None), tsame |-> Ok(None)]

\* payload.query(q) on the operation-based container
OpsQuery ==
  \E q \in QueryFns :
    /\ ~panicked /\ steps < MaxSteps
    /\ LET c == OpsPayload_query(impl_T, initial, q)
           t == OpsT_query(impl_T, t_ops, q)
       IN /\ initial' = c.x
          /\ t_ops' = t.x
          /\ panicked' = (c.panic \/ t.panic)
          /\ last' = [NoCall EXCEPT !.op = "ops_query", !.fn = q,
                        !.before = initial, !.mid = initial, !.after = c.x,
                        !.res = c.ret, !.tres = t.ret,
                        !.tsame = OpsT_query(impl_T, initial, q).ret]
    /\ steps' = steps + 1
    /\ UNCHANGED <<overflow_checks, impl_T, sb_initial, t_sb>>
    /\ UNCHANGED <<opsReplicaVars, sbReplicaVars, latticeVars>>

\* payload.update(&args, at_source, downstream) on the operation-based container
OpsUpdate ==
  \E args \in ArgVals, at \in AtSourceFns, dn \in DownstreamFns :
    /\ ~panicked /\ steps < MaxSteps
    /\ LET c == OpsPayload_update(initial, args, at, dn)
           t == OpsT_update(impl_T, t_ops, args, at, dn)
       IN /\ initial' = c.x
          /\ t_ops' = t.x
          /\ panicked' = (c.panic \/ t.panic)
          /\ last' = [NoCall EXCEPT !.op = "ops_update", !.at = at, !.dn = dn,
                        !.args = args, !.before = initial, !.mid = c.mid,
                        !.after = c.x, !.atres = c.atres,
                        !.dn_applied = c.dn_applied, !.dn_in = c.dn_in,
                        !.res = c.ret, !.tres = t.ret,
                        !.tsame = OpsT_update(impl_T, initial, args, at, dn).ret]
    /\ steps' = steps + 1
    /\ UNCHANGED <<overflow_checks, impl_T, sb_initial, t_sb>>
    /\ UNCHANGED <<opsReplicaVars, sbReplicaVars, latticeVars>>

\* payload.query(q) on the state-based container
SbQuery ==
  \E q \in QueryFns :
    /\ ~panicked /\ steps < MaxSteps
    /\ LET c == SbPayload_query(sb_initial, q)
           t == SbT_query(impl_T, t_sb, q)
       IN /\ sb_initial' = c.x
          /\ t_sb' = t.x
          /\ panicked' = (c.panic \/ t.panic)
          /\ last' = [NoCall EXCEPT !.op = "sb_query", !.fn = q,
                        !.before = sb_initial, !.mid = sb_initial, !.after = c.x,
                        !.res = c.ret, !.tres = t.ret,
                        !.tsame = SbT_query(impl_T, sb_initial, q).ret]
    /\ steps' = steps + 1
    /\ UNCHANGED <<overflow_checks, impl_T, initial, t_ops>>
    /\ UNCHANGED <<opsReplicaVars, sbReplicaVars, latticeVars>>

\* payload.update(u) on the state-based container
SbUpdate ==
  \E u \in UpdateFns :
    /\ ~panicked /\ steps < MaxSteps
    /\ LET c == SbPayload_update(sb_initial, u)
           t == SbT_update(impl_T, t_sb, u)
       IN /\ sb_initial' = c.x
          /\ t_sb' = t.x
          /\ panicked' = (c.panic \/ t.panic)
          /\ last' = [NoCall EXCEPT !.op = "sb_update", !.fn = u,
                        !.before = sb_initial, !.mid = sb_initial, !.after = c.x,
                        !.res = c.ret, !.tres = t.ret,
                        !.tsame = SbT_update(impl_T, sb_initial, u).ret]
    /\ steps' = steps + 1
    /\ UNCHANGED <<overflow_checks, impl_T, initial, t_ops>>
    /\ UNCHANGED <<opsReplicaVars, sbReplicaVars, latticeVars>>

\* Variables of the other specifications, at rest.
NoReplicaCall ==
  [r |-> "", op |-> "none", o |-> 0, before |-> 0, arg |-> 0,
   res |-> Ok(None), after |-> 0]

IdleOpsReplicas ==
  /\ rval = <<>> /\ applied = <<>> /\ opargs = <<>> /\ rpanic = {}
  /\ rinit = 0 /\ rlast = NoReplicaCall
IdleSbReplicas ==
  /\ sval = <<>> /\ seen = <<>> /\ net = {}
IdleLattice ==
  /\ lx = 0 /\ ly = 0 /\ lz = 0 /\ lres = <<>>
IdleContainers ==
  /\ impl_T = "i32" /\ initial = 0 /\ t_ops = 0 /\ sb_initial = 0 /\ t_sb = 0
  /\ last = NoCall /\ steps = 0

\* Payload::new(initial) / Payload { initial } for both containers, and a
\* bare T holding the same value next to each.
Init ==
  /\ overflow_checks \in BOOLEAN
  /\ panicked = FALSE
  /\ impl_T \in ImplTs
  /\ initial \in InitVals
  /\ t_ops = initial
  /\ sb_initial \in InitVals
  /\ t_sb = sb_initial
  /\ last = NoCall
  /\ steps = 0
  /\ IdleOpsReplicas /\ IdleSbReplicas /\ IdleLattice

Next == OpsQuery \/ OpsUpdate \/ SbQuery \/ SbUpdate

Spec == Init /\ [][Next]_vars

----------------------------------------------------------------------------
(* Operation-based replicas exchanging the operations of the unit test:     *)
(* at_source "sum" and downstream "add"                                     *)

Range(f) == {f[i] : i \in DOMAIN f}

Issued == UNION {Range(applied[r]) : r \in Replicas}

\* Source replica r runs payload.update(&args, at_source, downstream): both
\* phases run locally and the operation becomes available to the others.
SourceUpdateAt(r) ==
  \E o \in OpIds, args \in ArgVals :
    /\ r \notin rpanic
    /\ o \notin Issued
    /\ \A o2 \in OpIds : o2 < o => o2 \in Issued
    /\ LET c == OpsPayload_update(rval[r], args, "sum", "add")
           call == [NoReplicaCall EXCEPT !.r = r, !.o = o, !.before = rval[r],
                      !.arg = args, !.after = c.x]
       IN IF c.panic
          THEN /\ rpanic' = rpanic \cup {r}
               /\ rval' = [rval EXCEPT ![r] = c.x]
               /\ rlast' = [call EXCEPT !.op = "panic"]
               /\ UNCHANGED <<applied, opargs>>
          ELSE /\ rval' = [rval EXCEPT ![r] = c.x]
               /\ applied' = [applied EXCEPT ![r] = Append(@, o)]
               /\ opargs' = [opargs EXCEPT ![o] = args]
               /\ rlast' = [call EXCEPT !.op = "update", !.res = c.ret]
               /\ UNCHANGED rpanic
    /\ UNCHANGED <<overflow_checks, panicked, rinit>>
    /\ UNCHANGED <<containerVars, sbReplicaVars, latticeVars>>

\* Any replica may be the source of an update.
SourceUpdate == \E r \in Replicas : SourceUpdateAt(r)

\* Replica A is the source of every update.
SourceUpdateA == SourceUpdateAt("A")

\* The downstream phase of operation o run on replica r.
Downstream(r, o) ==
  LET d == DownstreamApply("add", rval[r], opargs[o])
  IN /\ IF d.panic
        THEN /\ rpanic' = rpanic \cup {r}
             /\ UNCHANGED <<rval, applied>>
        ELSE /\ rval' = [rval EXCEPT ![r] = d.x]
             /\ applied' = [applied EXCEPT ![r] = Append(@, o)]
             /\ UNCHANGED rpanic
     /\ UNCHANGED <<overflow_checks, panicked, opargs, rinit, rlast>>
     /\ UNCHANGED <<containerVars, sbReplicaVars, latticeVars>>

\* Another replica applies the downstream phase of an issued operation.
ApplyDownstream ==
  \E r \in Replicas, o \in Issued :
    /\ r \notin rpanic
    /\ o \notin Range(applied[r])
    /\ Downstream(r, o)

\* The number of repeated applications at replica r.
Repeats(r) == Len(applied[r]) - Cardinality(Range(applied[r]))

\* A replica is handed an operation it has already applied and applies its
\* downstream phase a second time; this happens to one operation at one
\* replica.
Redeliver ==
  \E r \in Replicas, o \in Issued :
    /\ r \notin rpanic
    /\ o \in Range(applied[r])
    /\ \A r2 \in Replicas : Repeats(r2) = 0
    /\ Downstream(r, o)

\* payload.query(|x| Some(x + 1)) at a replica
ReplicaQuery ==
  \E r \in Replicas :
    /\ r \notin rpanic
    /\ LET c == OpsPayload_query("i32", rval[r], "succ")
           call == [NoReplicaCall EXCEPT !.r = r, !.before = rval[r],
                      !.after = c.x]
       IN IF c.panic
          THEN /\ rpanic' = rpanic \cup {r}
               /\ rlast' = [call EXCEPT !.op = "panic"]
               /\ UNCHANGED rval
          ELSE /\ rval' = [rval EXCEPT ![r] = c.x]
               /\ rlast' = [call EXCEPT !.op = "query", !.res = c.ret]
               /\ UNCHANGED rpanic
    /\ UNCHANGED <<overflow_checks, panicked, applied, opargs, rinit>>
    /\ UNCHANGED <<containerVars, sbReplicaVars, latticeVars>>

\* Every replica is created by Payload::new with the same initial value.
InitConv ==
  /\ overflow_checks \in BOOLEAN
  /\ panicked = FALSE
  /\ rinit \in InitVals
  /\ rval = [r \in Replicas |-> rinit]
  /\ applied = [r \in Replicas |-> <<>>]
  /\ opargs = [o \in OpIds |-> 0]
  /\ rpanic = {}
  /\ rlast = NoReplicaCall
  /\ IdleContainers /\ IdleSbReplicas /\ IdleLattice

\* Each operation is applied at most once at each replica.
NextConv == SourceUpdate \/ ApplyDownstream

SpecConv == InitConv /\ [][NextConv]_vars

\* Operations issued at A are applied at B, and both replicas are queried.
NextScenario == SourceUpdateA \/ ApplyDownstream \/ ReplicaQuery

SpecScenario == InitConv /\ [][NextScenario]_vars

\* Operations issued at A may also be applied a second time.
NextDup == SourceUpdateA \/ ApplyDownstream \/ Redeliver

SpecDup == InitConv /\ [][NextDup]_vars

----------------------------------------------------------------------------
(* State-based replicas merging incoming values *)

\* The replica replaces its value by value.merge(&incoming).
MergeAt ==
  \E r \in Replicas, v \in MergeVals :
    /\ Len(seen[r]) < MaxMerges
    /\ sval' = [sval EXCEPT ![r] = merge(@, v)]
    /\ seen' = [seen EXCEPT ![r] = Append(@, v)]
    /\ UNCHANGED <<overflow_checks, panicked, net>>
    /\ UNCHANGED <<containerVars, opsReplicaVars, latticeVars>>

InitMerge ==
  /\ overflow_checks = FALSE
  /\ panicked = FALSE
  /\ \E v \in MergeVals \cup {0} : sval = [r \in Replicas |-> v]
  /\ seen = [r \in Replicas |-> <<>>]
  /\ net = {}
  /\ IdleContainers /\ IdleOpsReplicas /\ IdleLattice

NextMerge == MergeAt

SpecMerge == InitMerge /\ [][NextMerge]_vars

----------------------------------------------------------------------------
(* State-based replicas sending their values to each other; a value sent    *)
(* stays available, so it may be merged late and more than once             *)

\* Replica r sends its current value to every other replica.
Send(r) ==
  /\ net' = net \cup {<<d, sval[r]>> : d \in Peers \ {r}}
  /\ UNCHANGED <<overflow_checks, panicked, sval, seen>>
  /\ UNCHANGED <<containerVars, opsReplicaVars, latticeVars>>

\* Replica d merges the value v that was sent to it: value.merge(&v).
Deliver(d, v) ==
  /\ <<d, v>> \in net
  /\ sval' = [sval EXCEPT ![d] = merge(@, v)]
  /\ UNCHANGED <<overflow_checks, panicked, seen, net>>
  /\ UNCHANGED <<containerVars, opsReplicaVars, latticeVars>>

SendAny == \E r \in Peers : Send(r)

DeliverAny == \E d \in Peers, v \in MergeVals : Deliver(d, v)

\* The replicas hold arbitrary values and no further update is issued.
InitGossip ==
  /\ overflow_checks = FALSE
  /\ panicked = FALSE
  /\ sval \in [Peers -> MergeVals]
  /\ seen = <<>>
  /\ net = {}
  /\ IdleContainers /\ IdleOpsReplicas /\ IdleLattice

NextGossip == SendAny \/ DeliverAny

\* Every replica keeps sending its value and every value sent is eventually
\* merged by its destination.
FairGossip ==
  /\ \A r \in Peers : WF_vars(Send(r))
  /\ \A d \in Peers, v \in MergeVals : WF_vars(Deliver(d, v))

SpecGossip == InitGossip /\ [][NextGossip]_vars /\ FairGossip

----------------------------------------------------------------------------
(* The Semilattice functions on arbitrary operands *)

\* value1.merge(&value2)
CallMerge ==
  /\ lres' = <<"merge", merge(lx, ly)>>
  /\ UNCHANGED <<lx, ly, lz, overflow_checks, panicked>>
  /\ UNCHANGED <<containerVars, opsReplicaVars, sbReplicaVars>>

\* value1.compare(&value2)
CallCompare ==
  /\ lres' = <<"compare", compare(lx, ly)>>
  /\ UNCHANGED <<lx, ly, lz, overflow_checks, panicked>>
  /\ UNCHANGED <<containerVars, opsReplicaVars, sbReplicaVars>>

InitLattice ==
  /\ overflow_checks = FALSE
  /\ panicked = FALSE
  /\ lx \in LatticeVals /\ ly \in LatticeVals /\ lz \in LatticeVals
  /\ lres = <<>>
  /\ IdleContainers /\ IdleOpsReplicas /\ IdleSbReplicas

NextLattice == CallMerge \/ CallCompare

SpecLattice == InitLattice /\ [][NextLattice]_vars

----------------------------------------------------------------------------
(* Properties of the containers (Spec) *)

\* C1: in the operation-based Payload.update the atSource phase is
\* side-effect-free: the value right after at_source has run equals the value
\* right before it, for every at_source function the container accepts.
C1_AtSourceSideEffectFree ==
  last.op = "ops_update" => last.mid = last.before

\* C2: when at_source yields no operation the update does not proceed:
\* downstream is not applied, the value is unchanged and update returns no
\* operation.
C2_FailedPreconditionStops ==
  (last.op = "ops_update" /\ last.atres = None /\ ~panicked)
    => (~last.dn_applied /\ last.after = last.before /\ last.res = Ok(None))

\* C3: whenever T signals a typed error from its query or update on the
\* stored value, the container's query or update returns that same error.
C3_ErrorPropagated ==
  (last.op # "none" /\ last.tsame.tag = "Err") => last.res = last.tsame

\* C4: the container and a bare T driven by the same calls return the same
\* results and stay in the same state, in both styles.
C4_ContainerMatchesT ==
  ~panicked => /\ last.res = last.tres
               /\ initial = t_ops
               /\ sb_initial = t_sb

\* C9: every update applied through the state-based Payload.update only
\* strengthens the value: compare(value before, value after) is true.
C9_UpdateStrengthens ==
  (last.op = "sb_update" /\ ~panicked) => compare(last.before, last.after)

\* C10: query never changes the replica value: in both containers the stored
\* value after Payload.query equals the stored value before it.
C10_QueryLeavesValue ==
  [][last'.op \in {"ops_query", "sb_query"}
       => (initial' = initial /\ sb_initial' = sb_initial)]_vars

\* A query that returned a result, made after earlier calls on a container
\* whose value an update has changed.
C10_Witness ==
  /\ last.op = "sb_query" /\ last.res = Ok(Some(last.before + 1))
  /\ steps > 1 /\ sb_initial = 2 /\ sb_initial = last.before

\* C11: a query observes the latest locally committed value: every update
\* that returns leaves its whole effect in the stored value (state-based: the
\* value the update function left, which "inc" also returns; operation-based:
\* the value after downstream, not the one between the phases), and every
\* query is evaluated on the value stored when it is called.
C11_QueryObservesCommitted ==
  [][/\ (last'.op = "sb_update" /\ ~panicked')
          => /\ sb_initial' = last'.after
             /\ last'.fn = "inc" => last'.res = Ok(Some(sb_initial'))
     /\ last'.op = "sb_query"
          => /\ last'.before = sb_initial
             /\ ~panicked' => last'.res = Ok(QueryApply(last'.fn, sb_initial).res)
     /\ (last'.op = "ops_update" /\ ~panicked')
          => /\ initial' = last'.after
             /\ last'.after = DownstreamApply(last'.dn, last'.mid, last'.args).x
     /\ last'.op = "ops_query"
          => /\ last'.before = initial
             /\ (impl_T = "i32" /\ ~panicked')
                  => last'.res = Ok(QueryApply(last'.fn, initial).res)
    ]_vars

\* A query on the operation-based container answered on a value that an
\* earlier update left.
C11_Witness ==
  /\ last.op = "ops_query" /\ steps > 1 /\ ~panicked
  /\ initial \notin InitVals
  /\ last.res = Ok(Some(initial + 1))

\* C15: one operation-based update runs at_source first, on the pre-update
\* value with the caller's args, then applies downstream exactly once to the
\* same value with the same args, and returns what at_source produced.
C15_PhasesInOrder ==
  (last.op = "ops_update" /\ ~panicked) =>
    LET a == AtSourceApply(last.at, last.before, last.args) IN
    /\ last.atres = a.res
    /\ last.mid = a.x
    /\ last.dn_applied
    /\ last.after = DownstreamApply(last.dn, a.x, last.args).x
    /\ last.res = Ok(a.res)

\* The update of the unit test on a value other than 0: the result is the sum
\* computed before downstream ran, the value is the sum after it ran once.
C15_Witness ==
  /\ last.op = "ops_update" /\ ~panicked
  /\ last.at = "sum" /\ last.dn = "add" /\ last.before = 1 /\ last.args = 2
  /\ last.res = Ok(Some(3)) /\ initial = 3

\* C16: the input that downstream applies equals the operation that at_source
\* returned for that update.
C16_DownstreamAppliesOperation ==
  (last.op = "ops_update" /\ last.dn_applied /\ last.atres # None)
    => last.dn_in = last.atres[1]

----------------------------------------------------------------------------
(* Properties of the operation-based replicas (SpecConv, SpecScenario) *)

\* C5: two operation-based replicas that started from the same initial value
\* and have applied the same set of downstream operations hold identical
\* values, whatever the order in which each applied them.
C5_Convergence ==
  \A r1, r2 \in Replicas :
    Range(applied[r1]) = Range(applied[r2]) => rval[r1] = rval[r2]

\* Both replicas have applied every operation, in different orders, and the
\* operations do not all carry the same argument.
C5_Witness ==
  /\ Len(applied["A"]) = MaxOps /\ Len(applied["B"]) = MaxOps
  /\ applied["A"] # applied["B"]
  /\ opargs[1] # opargs[2]

InRange(n) == MinI32 <= n /\ n <= MaxI32

\* C12: from 0, update +1 at A returns +1 and leaves 1; B at 0 applying
\* downstream +1 reaches 1; the query then returns 2.  In general update with
\* argument a on value v returns Some(v + a) and leaves v + a, and the query
\* on value v returns Some(v + 1).
C12_IntegerScenario ==
  /\ rlast.op = "update"
       => /\ rlast.res = Ok(Some(rlast.before + rlast.arg))
          /\ rlast.after = rlast.before + rlast.arg
  /\ \A r \in Replicas, o \in OpIds :
       (rinit = 0 /\ applied[r] = <<o>> /\ opargs[o] = 1) => rval[r] = 1
  /\ rlast.op = "query"
       => /\ rlast.res = Ok(Some(rlast.before + 1))
          /\ rlast.after = rlast.before

\* C12 (amended): the same whenever the sum fits in i32; when it does not,
\* the call panics under overflow checks and otherwise returns and leaves
\* the wrapped sum.
C12_IntegerScenarioInRange ==
  /\ rlast.op = "update"
       => /\ rlast.res = Ok(Some(Wrap32(rlast.before + rlast.arg)))
          /\ rlast.after = Wrap32(rlast.before + rlast.arg)
          /\ InRange(rlast.before + rlast.arg)
               => /\ rlast.res = Ok(Some(rlast.before + rlast.arg))
                  /\ rlast.after = rlast.before + rlast.arg
          /\ ~InRange(rlast.before + rlast.arg) => ~overflow_checks
  /\ \A r \in Replicas, o \in OpIds :
       (rinit = 0 /\ applied[r] = <<o>> /\ opargs[o] = 1) => rval[r] = 1
  /\ rlast.op = "query"
       => /\ rlast.res = Ok(Some(Wrap32(rlast.before + 1)))
          /\ rlast.after = rlast.before
          /\ InRange(rlast.before + 1) => rlast.res = Ok(Some(rlast.before + 1))
          /\ ~InRange(rlast.before + 1) => ~overflow_checks
  /\ rlast.op = "panic"
       => /\ overflow_checks
          /\ ~InRange(rlast.before + (IF rlast.o = 0 THEN 1 ELSE rlast.arg))
          /\ rlast.after = rlast.before

\* The scenario: A issued +1 from 0, B applied it, both hold 1 and the query
\* at B returned 2.
C12_Witness ==
  /\ rinit = 0 /\ opargs[1] = 1
  /\ applied["A"] = <<1>> /\ applied["B"] = <<1>>
  /\ rval["A"] = 1 /\ rval["B"] = 1
  /\ rlast.op = "query" /\ rlast.r = "B" /\ rlast.res = Ok(Some(2))

----------------------------------------------------------------------------
(* Properties of the operation-based replicas with redelivery (SpecDup) *)

RECURSIVE SumArgs(_)
\* The sum of the arguments of a sequence of operations.
SumArgs(ops) ==
  IF ops = <<>> THEN 0 ELSE opargs[Head(ops)] + SumArgs(Tail(ops))

IsOnce(ops) == Len(ops) = Cardinality(Range(ops))

RECURSIVE SumOf(_)
\* The sum of the arguments of a set of operations.
SumOf(S) ==
  IF S = {} THEN 0
  ELSE LET o == CHOOSE o \in S : TRUE IN opargs[o] + SumOf(S \ {o})

\* C17: a replica that applied each operation of a set exactly once holds the
\* initial value plus the sum of their arguments; a replica that applied one
\* of them a second time holds a value that differs from this sum by that
\* operation's argument.
C17_ExactlyOnceSum ==
  \A r \in Replicas :
    /\ IsOnce(applied[r]) => rval[r] = rinit + SumOf(Range(applied[r]))
    /\ \A i \in DOMAIN applied[r] :
         (/\ Repeats(r) = 1
          /\ \E j \in DOMAIN applied[r] : j < i /\ applied[r][j] = applied[r][i])
           => rval[r] - (rinit + SumOf(Range(applied[r]))) = opargs[applied[r][i]]

\* C17 (amended): the same in i32 arithmetic: the sums are taken modulo the
\* integer width, and are the plain sums whenever no partial sum overflows.
C17_ExactlyOnceSumWrapped ==
  \A r \in Replicas :
    /\ IsOnce(applied[r])
         => rval[r] = Wrap32(rinit + SumOf(Range(applied[r])))
    /\ \A i \in DOMAIN applied[r] :
         (/\ Repeats(r) = 1
          /\ \E j \in DOMAIN applied[r] : j < i /\ applied[r][j] = applied[r][i])
           => /\ rval[r] = Wrap32(rinit + SumOf(Range(applied[r]))
                                    + opargs[applied[r][i]])
              /\ rval[r] # Wrap32(rinit + SumOf(Range(applied[r])))
    /\ overflow_checks => rval[r] = rinit + SumArgs(applied[r])

\* A has applied every operation once, B has applied every operation and one
\* of them twice, and they hold different values.
C17_Witness ==
  /\ Len(applied["A"]) = MaxOps /\ Range(applied["A"]) = OpIds
  /\ Len(applied["B"]) = MaxOps + 1 /\ Range(applied["B"]) = OpIds
  /\ rval["A"] # rval["B"]

----------------------------------------------------------------------------
(* Properties of the state-based replicas (SpecMerge) *)

\* C6: merging the same incoming value twice leaves the same value as merging
\* it once, and merging two incoming values in either order leaves the same
\* value: replicas that merged the same set of values hold the same value.
C6_MergeDelivery ==
  \A r1, r2 \in Replicas :
    Range(seen[r1]) = Range(seen[r2]) => sval[r1] = sval[r2]

\* One replica merged a value twice, the other once, and they merged two
\* distinct values in opposite orders.
C6_Witness ==
  /\ Len(seen["A"]) = 3 /\ Len(seen["B"]) = 2
  /\ seen["A"][1] = seen["A"][2]
  /\ seen["A"][2] # seen["A"][3]
  /\ seen["B"] = <<seen["A"][3], seen["A"][1]>>

----------------------------------------------------------------------------
(* Properties of the Semilattice functions (SpecLattice) *)

\* C7: merge is idempotent, commutative and associative.
C7_MergeLaws ==
  /\ merge(lx, lx) = lx
  /\ merge(lx, ly) = merge(ly, lx)
  /\ merge(merge(lx, ly), lz) = merge(lx, merge(ly, lz))
  /\ (lres # <<>> /\ lres[1] = "merge") => lres[2] = merge(ly, lx)

\* merge was called on operands that are pairwise distinct.
C7_Witness ==
  /\ lres # <<>> /\ lres[1] = "merge"
  /\ lx # ly /\ ly # lz /\ lx # lz
  /\ lres[2] = lx

\* C8: compare(x, y) is true iff merge(x, y) = y, and compare is reflexive,
\* antisymmetric and transitive.
C8_CompareIsOrder ==
  /\ compare(lx, ly) <=> (merge(lx, ly) = ly)
  /\ compare(lx, lx)
  /\ (compare(lx, ly) /\ compare(ly, lx)) => lx = ly
  /\ (compare(lx, ly) /\ compare(ly, lz)) => compare(lx, lz)
  /\ (lres # <<>> /\ lres[1] = "compare") => (lres[2] <=> (merge(lx, ly) = ly))

\* compare was called and answered TRUE on a chain of three distinct operands.
C8_Witness ==
  /\ lres = <<"compare", TRUE>>
  /\ lx # ly /\ ly # lz
  /\ compare(ly, lz)


\* C13: merge returns the least upper bound: x and y are below merge(x, y),
\* and merge(x, y) is below every z that x and y are both below.
C13_MergeIsLub ==
  LET m == merge(lx, ly) IN
  /\ compare(lx, m)
  /\ compare(ly, m)
  /\ (compare(lx, lz) /\ compare(ly, lz)) => compare(m, lz)
  /\ (lres # <<>> /\ lres[1] = "merge")
       => (lres[2] = m /\ compare(lx, lres[2]) /\ compare(ly, lres[2]))

\* merge was called on two distinct operands that have a strict upper bound
\* other than their merge.
C13_Witness ==
  /\ lres # <<>> /\ lres[1] = "merge"
  /\ lx # ly
  /\ compare(lx, lz) /\ compare(ly, lz) /\ lz # lres[2]


----------------------------------------------------------------------------
(* Properties of the state-based replicas sending values (SpecGossip) *)

RECURSIVE JoinOf(_)
\* The merge of a non-empty set of replicas' values.
JoinOf(S) ==
  LET r == CHOOSE r \in S : TRUE IN
  IF S = {r} THEN sval[r] ELSE merge(sval[r], JoinOf(S \ {r}))

\* The largest of the replicas' values.
MaxOfAll == CHOOSE m \in MergeVals :
              /\ \E r \in Peers : sval[r] = m
              /\ \A r \in Peers : sval[r] <= m

\* C14: with every value sent eventually merged by its destination and no
\* further update, all replicas eventually hold the join (the maximum) of
\* the values the replicas started with, and keep it.
C14_EventualConvergence ==
  \A v \in MergeVals :
    (JoinOf(Peers) = v /\ MaxOfAll = v) => <>[](\A r \in Peers : sval[r] = v)

\* The replicas agree on 4 after a replica at 2 and a replica at 4 have sent
\* their values to each other.
C14_Witness ==
  /\ \A r \in Peers : sval[r] = 4
  /\ <<"A", 4>> \in net /\ <<"B", 2>> \in net

====
